---- MODULE Spec2Model ----
(***************************************************************************)
(* A model of lattpy's BravaisLattice (src/lattpy/base.py): the atomic     *)
(* basis, the shell list (self.distances), the origin-relative neighbour   *)
(* table (self._base_neighbors) and the vector algebra (translate,         *)
(* itranslate).                                                            *)
(*                                                                         *)
(* Numbers.  Lattice vectors and atom positions are integer vectors, so a  *)
(* squared distance is an integer.  A distance rounded to DIST_DECIMALS    *)
(* decimals is held as the integer round(sqrt(d2) * 10^DIST_DECIMALS),     *)
(* computed digit by digit (RoundedSqrt); 1.41421 is held as 141421.       *)
(* A vector is a sequence of integers, a matrix a sequence of rows.        *)
(*                                                                         *)
(* Instances.  The attribute variables are those of the instance the       *)
(* calls are made on (receiver).  copy() makes a second instance, held in  *)
(* the record other; Switch turns the caller from the original to the      *)
(* copy.  shared names the lists both instances hold as one object.        *)
(***************************************************************************)
EXTENDS Integers, Sequences, FiniteSets, TLC

\* ------------------------------------------------------------------ bounds
\* at most MaxAtoms atoms are added to the basis
MaxAtoms == 2
\* shell counts asked of calculate_distances / add_atom are 1..MaxShells
MaxShells == 2
\* translation coordinates passed to the queries are -NMax..NMax
NMax == 1
\* sites of the infinite lattice are looked at up to translation coordinate Reach
Reach == 4

\* -------------------------------------------------------- class constants
DIST_DECIMALS == 5
MIN_DISTS == 3

\* --------------------------------------------------------------- vectors
Max(a, b) == IF a >= b THEN a ELSE b
Min(a, b) == IF a <= b THEN a ELSE b

RECURSIVE SumTo(_, _)
\* sum of f[1..k]
SumTo(f, k) == IF k = 0 THEN 0 ELSE f[k] + SumTo(f, k - 1)

\* np.zeros(d)
Zeros(d) == [i \in 1..d |-> 0]
VecAdd(a, b) == [i \in 1..Len(a) |-> a[i] + b[i]]
VecSub(a, b) == [i \in 1..Len(a) |-> a[i] - b[i]]
\* M @ v
MatVec(M, v) == [i \in 1..Len(M) |-> SumTo([j \in 1..Len(v) |-> M[i][j] * v[j]], Len(v))]
\* np.atleast_2d(vectors).T
Transpose(M) == [i \in 1..Len(M[1]) |-> [j \in 1..Len(M) |-> M[j][i]]]

\* utils.vrange: every vector of the cartesian product of the per-dimension
\* ranges lo[d]..hi[d], as a sequence in row-major order
RECURSIVE vrange(_, _)
vrange(lo, hi) ==
    IF Len(lo) = 0 THEN << <<>> >>
    ELSE LET rest == vrange(Tail(lo), Tail(hi))
             m == Len(rest)
             w == hi[1] - lo[1] + 1
         IN  IF w <= 0 THEN <<>>
             ELSE [k \in 1..(w * m) |->
                      <<lo[1] + ((k - 1) \div m)>> \o rest[((k - 1) % m) + 1]]

\* squared euclidean distance of two positions
Dist2(r1, r2) == SumTo([i \in 1..Len(r1) |-> (r1[i] - r2[i]) * (r1[i] - r2[i])], Len(r1))

\* ------------------------------------------------- distances and rounding
\* the largest squared distance the model computes
MaxCoord == 4 * (Max(Max(MaxShells, MaxAtoms) + 1, MIN_DISTS) + Reach + NMax) + 1
MaxD2 == 2 * MaxCoord * MaxCoord

RECURSIVE SqrtDigits(_, _, _)
\* k more decimal digits of a square root, by long-hand extraction: r is the
\* root so far and rem what is left of the radicand; returns <<root, rem>>
SqrtDigits(r, rem, k) ==
    IF k = 0 THEN <<r, rem>>
    ELSE LET c == rem * 100
             x == CHOOSE d \in 0..9 :
                      /\ (20 * r + d) * d <= c
                      /\ (d = 9 \/ (20 * r + d + 1) * (d + 1) > c)
         IN  SqrtDigits(10 * r + x, c - (20 * r + x) * x, k - 1)

\* np.round(sqrt(d2), decimals=DIST_DECIMALS) in units of 10^-DIST_DECIMALS
RoundedSqrt(d2) ==
    LET r0 == CHOOSE r \in 0..MaxCoord * 2 : r * r <= d2 /\ (r + 1) * (r + 1) > d2
        p  == SqrtDigits(r0, d2 - r0 * r0, DIST_DECIMALS)
    IN  IF p[2] > p[1] THEN p[1] + 1 ELSE p[1]

\* RoundedSqrt tabulated once
SqrtTab == [d2 \in 0..MaxD2 |-> RoundedSqrt(d2)] @@ <<>>

\* utils.distance, rounded: the euclidean distance of two positions
distance(r1, r2) == SqrtTab[Dist2(r1, r2)]

\* ------------------------------------------------------------ construction
\* BravaisLattice.chain(a)
chain(a) == << <<a>> >>
\* BravaisLattice.square(a)
square(a) == << <<a, 0>>, <<0, a>> >>
\* BravaisLattice.rectangular(a1, a2)
rectangular(a1, a2) == << <<a1, 0>>, <<0, a2>> >>
\* a skewed basis handed to the constructor: primitive vectors (1,0) and (3,1)
skewed == << <<1, 0>>, <<3, 1>> >>

\* the primitive-vector lists the lattices of the model are constructed from
LatticeInputs == {chain(1), square(1), rectangular(2, 1), skewed}

\* self.vectors of BravaisLattice(vecs)
StoredVectors(vecs) == Transpose(vecs)

\* positions add_atom is called with, for a lattice of dimension d
Positions(d) == {p \in [1..d -> {0, 1}] : SumTo(p, d) <= 1}

\* ---------------------------------------------------------- get_position
\* get_position(n, alpha) on basis matrix V and atom positions P (alpha from 0)
get_position(V, P, n, alpha) == VecAdd(P[alpha + 1], MatVec(V, n))

\* ---------------------------------------------------- calculate_neighbours
\* _neighbour_range with offset = cell_range: the padding of 2 left out
neighbour_range_no_padding(nb, n, cell_range) ==
    LET n_vecs == vrange([d \in 1..Len(n) |-> n[d] - cell_range],
                         [d \in 1..Len(n) |-> n[d] + cell_range])
    IN  [k \in 1..(Len(n_vecs) * nb) |->
            <<n_vecs[((k - 1) \div nb) + 1], (k - 1) % nb>>]

\* _neighbour_range(n, cell_range): the candidate indices <<nvec, alpha>>
neighbour_range(nb, n, cell_range) ==
    LET offset == cell_range + 2
        n_vecs == vrange([d \in 1..Len(n) |-> n[d] - offset],
                         [d \in 1..Len(n) |-> n[d] + offset])
    IN  [k \in 1..(Len(n_vecs) * nb) |->
            <<n_vecs[((k - 1) \div nb) + 1], (k - 1) % nb>>]

\* np.round(abs(d - dist), DIST_DECIMALS) == 0.0 for d = sqrt(d2) and dist a
\* distance already rounded: |d - dist| rounds to zero exactly when dist is
\* the DIST_DECIMALS-rounding of d (sqrt(d2) is never half-way between two)
RoundsToZero(d2, dist) == SqrtTab[d2] = dist

\* the acceptance test with a cut-off instead of a match: distance <= dist
AcceptsWithin(V, P, dists, idx, idx1, dist_idx) ==
    SqrtTab[Dist2(get_position(V, P, idx[1], idx[2]),
                  get_position(V, P, idx1[1], idx1[2]))] <= dists[dist_idx + 1]

\* the acceptance test of calculate_neighbours for candidate idx1 of site idx
Accepts(V, P, dists, idx, idx1, dist_idx) ==
    RoundsToZero(Dist2(get_position(V, P, idx[1], idx[2]),
                       get_position(V, P, idx1[1], idx1[2])), dists[dist_idx + 1])

\* calculate_neighbours(n, alpha, dist_idx, array=True)
calculate_neighbours(V, P, dists, n, alpha, dist_idx) ==
    LET idx == <<n, alpha>>
        cand == neighbour_range(Len(P), n, dist_idx)
        Test(idx1) == Accepts(V, P, dists, idx, idx1, dist_idx)
        hit == SelectSeq(cand, Test)
    IN  [k \in 1..Len(hit) |-> hit[k][1] \o <<hit[k][2]>>]

\* ----------------------------------------------------- calculate_distances
\* n = max(num_dist + 1, MIN_DISTS)
n_expand(num_dist) == Max(num_dist + 1, MIN_DISTS)

\* vrange(self.dim * [np.arange(-n, n)])
image_vectors(d, n) == vrange([i \in 1..d |-> -n], [i \in 1..d |-> n - 1])

\* r_vecs: the position of every atom in every candidate cell
r_vecs(V, P, n) ==
    LET n_vecs == image_vectors(Len(V), n)
    IN  {get_position(V, P, n_vecs[k], alpha) :
            k \in 1..Len(n_vecs), alpha \in 0..(Len(P) - 1)}

\* set(np.round([distance(r1, r2) for r1, r2 in pairs], DIST_DECIMALS))
unique_distances(V, P, n) ==
    {distance(r1, P[a]) : r1 \in r_vecs(V, P, n), a \in 1..Len(P)}

RECURSIVE SortAscending(_)
\* distances.sort() on the list of a set
SortAscending(S) ==
    IF S = {} THEN <<>>
    ELSE LET m == CHOOSE x \in S : \A y \in S : x <= y
         IN  <<m>> \o SortAscending(S \ {m})

\* list.remove(x): the list without the first x
RemoveFirst(seq, x) ==
    LET at == CHOOSE k \in 1..Len(seq) : seq[k] = x /\ \A j \in 1..(k - 1) : seq[j] # x
    IN  SubSeq(seq, 1, at - 1) \o SubSeq(seq, at + 1, Len(seq))

\* the slice without distances.remove(0.0)
shell_list_keep_zero(sorted, n) == SubSeq(sorted, 1, Min(n - 1, Len(sorted)))

\* distances.remove(0.0); self.distances = distances[0:n - 1]
shell_list(sorted, n) ==
    LET rest == RemoveFirst(sorted, 0)
    IN  SubSeq(rest, 1, Min(n - 1, Len(rest)))

\* the cell-neighbour loop: one row per atom, one entry per stored shell
cell_neighbours(V, P, dists) ==
    [a \in 1..Len(P) |->
        [i \in 1..Len(dists) |->
            calculate_neighbours(V, P, dists, Zeros(Len(V)), a - 1, i - 1)]]

\* what calculate_distances(num_dist) stores, for a non-empty basis
calculate(V, P, num_dist) ==
    LET n == n_expand(num_dist)
        dists == shell_list(SortAscending(unique_distances(V, P, n)), n)
    IN  [distances |-> dists, n_dist |-> num_dist,
         neighbours |-> cell_neighbours(V, P, dists)]

\* calculate tabulated once over the lattices, bases and shell counts of the model
CalcKeys ==
    UNION {
        UNION {
            { <<StoredVectors(b), P, k>> :
                P \in {Q \in [1..m -> Positions(Len(b))] :
                          \A i, j \in 1..m : Q[i] = Q[j] => i = j},
                k \in 1..Max(MaxShells, MaxAtoms) }
            : m \in 1..MaxAtoms }
        : b \in LatticeInputs }
CalcTab == [key \in CalcKeys |-> calculate(key[1], key[2], key[3])] @@ <<>>

\* --------------------------------------------------- translate, itranslate
\* translate(nvec, r)
translate(V, nvec, r) == VecAdd(r, MatVec(V, nvec))

\* the transpose taken for the inverse (right for orthonormal vectors only)
vectors_inv_transpose(V) == [adj |-> Transpose(V), det |-> 1]

\* np.linalg.inv(self.vectors) as an exact fraction: adj / det
vectors_inv(V) ==
    IF Len(V) = 1
    THEN [adj |-> << <<1>> >>, det |-> V[1][1]]
    ELSE [adj |-> << <<V[2][2], -V[1][2]>>, <<-V[2][1], V[1][1]>> >>,
          det |-> V[1][1] * V[2][2] - V[1][2] * V[2][1]]

\* np.floor(num / den), den # 0
Floor(num, den) == IF den > 0 THEN num \div den ELSE (-num) \div (-den)

\* itranslate(v): <<nvec, r>>
itranslate(V, v) ==
    LET inv == vectors_inv(V)
        itrans == MatVec(inv.adj, v)
        nvec == [i \in 1..Len(v) |-> Floor(itrans[i], inv.det)]
    IN  <<nvec, VecSub(v, translate(V, nvec, Zeros(Len(v))))>>

\* ------------------------------------------------------------------ state
VARIABLES
    vectors,          \* self.vectors
    n_base,           \* self.n_base
    atoms,            \* self.atoms: the names of the Atom objects
    atom_positions,   \* self.atom_positions
    n_dist,           \* self.n_dist
    distances,        \* self.distances: the shell list
    base_neighbors,   \* self._base_neighbors: [atom][shell] -> list of n \o <<alpha>>
    COUNTER,          \* Atom.COUNTER: the next anonymous atom number
    last,             \* the last call: [op, args, err, ret]
    other,            \* the second Lattice instance, once copy() has made it
    receiver,         \* the instance the attributes above belong to: "self" or "latt"
    shared            \* the list attributes both instances hold as one object

lattice == <<vectors, n_base, atoms, atom_positions, n_dist, distances, base_neighbors>>
vars == <<vectors, n_base, atoms, atom_positions, n_dist, distances, base_neighbors,
          COUNTER, last, other, receiver, shared>>

dim == Len(vectors)
origin == Zeros(dim)

\* names add_atom is called with; "" stands for atom=None (name or str(idx)).
\* Atoms are added anonymously: the tag is then the value of Atom.COUNTER, so
\* the atoms of one basis carry different tags.
Names == {""}
\* translation vectors translate is called with
NVecs == [1..dim -> (-NMax)..NMax]
\* the cells the neighbour and position queries are called with
Cell(a, b) == [i \in 1..dim |-> IF i = 1 THEN a ELSE b]
QueryCells == {origin, Cell(1, -1), Cell(-1, 0)}

Call(op, args, err, ret) == [op |-> op, args |-> args, err |-> err, ret |-> ret]

\* the attributes of a Lattice instance that is not the receiver of the calls
LatticeRecord(V, nb, A, P, nd, D, B) ==
    [made |-> TRUE, vectors |-> V, n_base |-> nb, atoms |-> A, atom_positions |-> P,
     n_dist |-> nd, distances |-> D, base_neighbors |-> B]

\* no second instance yet
NoLattice ==
    [made |-> FALSE, vectors |-> <<>>, n_base |-> 0, atoms |-> <<>>, atom_positions |-> <<>>,
     n_dist |-> 0, distances |-> <<>>, base_neighbors |-> <<>>]

\* __init__
Init ==
    /\ vectors \in {StoredVectors(b) : b \in LatticeInputs}
    /\ n_base = 0
    /\ atoms = <<>>
    /\ atom_positions = <<>>
    /\ n_dist = 0
    /\ distances = <<>>
    /\ base_neighbors = <<>>
    /\ COUNTER = 0
    /\ last = Call("init", <<>>, "none", <<>>)
    /\ other = NoLattice
    /\ receiver = "self"
    /\ shared = {}

\* Atom(name): the name the new atom gets
AtomName(atom) == IF atom = "" THEN ToString(COUNTER) ELSE atom

\* list.insert(0, x): the new item put in front
list_insert_front(lst, x) == <<x>> \o lst

\* list.append(x)
list_append(lst, x) == Append(lst, x)

\* any(pos is x for x in self.atom_positions): a new array is never a stored one
OccupiedByIdentity(pos) == FALSE

\* any(np.all(pos == x) for x in self.atom_positions)
Occupied(pos) == \E k \in 1..Len(atom_positions) : atom_positions[k] = pos

\* the part of calculate_distances after the empty-basis check, on basis P
StoreDistances(P, num_dist) ==
    LET c == CalcTab[<<vectors, P, num_dist>>]
    IN  /\ distances' = c.distances
        /\ n_dist' = c.n_dist
        /\ base_neighbors' = c.neighbours

\* what a call on the receiver does to the other instance: a list both hold
\* as one object shows the receiver's append
OtherAfterCall ==
    /\ other' = [other EXCEPT
                    !.atoms = IF "atoms" \in shared THEN atoms' ELSE @,
                    !.atom_positions = IF "atom_positions" \in shared
                                       THEN atom_positions' ELSE @]
    /\ UNCHANGED <<receiver, shared>>

\* calculate_distances(num_dist)
CalculateDistances(num_dist) ==
    /\ IF Len(atoms) = 0
       THEN /\ last' = Call("calculate_distances", <<num_dist>>, "ConfigurationError", <<>>)
            /\ UNCHANGED <<lattice, COUNTER>>
       ELSE /\ StoreDistances(atom_positions, num_dist)
            /\ last' = Call("calculate_distances", <<num_dist>>, "none", <<>>)
            /\ UNCHANGED <<vectors, n_base, atoms, atom_positions, COUNTER>>
    /\ OtherAfterCall

\* calculate_distances(None): the number of atoms is used
CalculateDistancesDefault ==
    /\ IF Len(atoms) = 0
       THEN /\ last' = Call("calculate_distances", <<>>, "ConfigurationError", <<>>)
            /\ UNCHANGED <<lattice, COUNTER>>
       ELSE /\ StoreDistances(atom_positions, Len(atoms))
            /\ last' = Call("calculate_distances", <<>>, "none", <<>>)
            /\ UNCHANGED <<vectors, n_base, atoms, atom_positions, COUNTER>>
    /\ OtherAfterCall

\* add_atom(pos, atom, neighbours); pos_in = <<>> stands for pos=None
AddAtom(pos_in, atom, neighbours) ==
    /\ LET pos == IF pos_in = <<>> THEN Zeros(Len(vectors)) ELSE pos_in
       IN  IF Occupied(pos)
           THEN /\ last' = Call("add_atom", <<pos_in, atom, neighbours>>, "ValueError", <<>>)
                /\ UNCHANGED <<lattice, COUNTER>>
           ELSE /\ Len(atoms) < MaxAtoms      \* the bound of the model
                /\ COUNTER' = COUNTER + 1
                /\ atoms' = list_append(atoms, AtomName(atom))
                /\ atom_positions' = list_append(atom_positions, pos)
                /\ n_base' = Len(atom_positions')
                /\ IF neighbours # 0
                   THEN StoreDistances(atom_positions', neighbours)
                   ELSE UNCHANGED <<n_dist, distances, base_neighbors>>
                /\ last' = Call("add_atom", <<pos_in, atom, neighbours>>, "none", AtomName(atom))
                /\ UNCHANGED vectors
    /\ OtherAfterCall

\* "not self.n_base": the basis tested instead of the table
NotConfiguredByBasis == n_base = 0

\* "not self._base_neighbors"
NotConfigured == base_neighbors = <<>>

\* get_neighbours without "idx_t[:-1] += n"
get_neighbours_untranslated(n, alpha, dist_idx) == base_neighbors[alpha + 1][dist_idx + 1]

\* the list get_neighbours(idx, dist_idx) returns for idx = n \o <<alpha>>
get_neighbours(n, alpha, dist_idx) ==
    LET stored == base_neighbors[alpha + 1][dist_idx + 1]
    IN  [k \in 1..Len(stored) |->
            VecAdd(SubSeq(stored[k], 1, Len(stored[k]) - 1), n)
                \o <<stored[k][Len(stored[k])]>>]

\* the stored table after a get_neighbours with "idx_t = idx": the stored
\* entries themselves are moved by n
stored_moved_in_place(n, alpha, dist_idx) ==
    [base_neighbors EXCEPT ![alpha + 1][dist_idx + 1] = get_neighbours(n, alpha, dist_idx)]

\* the stored table after get_neighbours: "idx_t = idx.copy()" is what n is
\* added to, the stored entries are only read
stored_after_get_neighbours(n, alpha, dist_idx) == base_neighbors

\* get_neighbours(idx, dist_idx)
GetNeighbours(n, alpha, dist_idx) ==
    /\ IF NotConfigured
       THEN /\ last' = Call("get_neighbours", <<n, alpha, dist_idx>>, "ConfigurationError", <<>>)
            /\ UNCHANGED <<lattice, COUNTER>>
       ELSE IF \/ alpha >= Len(base_neighbors)
               \/ dist_idx >= Len(base_neighbors[alpha + 1])
       THEN /\ last' = Call("get_neighbours", <<n, alpha, dist_idx>>, "IndexError", <<>>)
            /\ UNCHANGED <<lattice, COUNTER>>
       ELSE /\ last' = Call("get_neighbours", <<n, alpha, dist_idx>>, "none",
                            get_neighbours(n, alpha, dist_idx))
            /\ base_neighbors' = stored_after_get_neighbours(n, alpha, dist_idx)
            /\ UNCHANGED <<vectors, n_base, atoms, atom_positions, n_dist, distances, COUNTER>>
    /\ OtherAfterCall

\* the list get_neighbour_vectors(alpha, dist_idx, include_zero) returns
get_neighbour_vectors(alpha, dist_idx, include_zero) ==
    LET pos0 == atom_positions[alpha + 1]
        stored == base_neighbors[alpha + 1][dist_idx + 1]
        vecs == [k \in 1..Len(stored) |->
                    VecSub(get_position(vectors, atom_positions,
                                        SubSeq(stored[k], 1, Len(stored[k]) - 1),
                                        stored[k][Len(stored[k])]), pos0)]
    IN  IF include_zero THEN <<Zeros(dim)>> \o vecs ELSE vecs

\* get_neighbour_vectors(alpha, dist_idx, include_zero)
GetNeighbourVectors(alpha, dist_idx, include_zero) ==
    /\ last' = IF NotConfigured
               THEN Call("get_neighbour_vectors", <<alpha, dist_idx, include_zero>>,
                         "ConfigurationError", <<>>)
               ELSE IF \/ alpha >= Len(atom_positions)
                       \/ alpha >= Len(base_neighbors)
                       \/ dist_idx >= Len(base_neighbors[alpha + 1])
               THEN Call("get_neighbour_vectors", <<alpha, dist_idx, include_zero>>,
                         "IndexError", <<>>)
               ELSE Call("get_neighbour_vectors", <<alpha, dist_idx, include_zero>>, "none",
                         get_neighbour_vectors(alpha, dist_idx, include_zero))
    /\ UNCHANGED <<lattice, COUNTER>>
    /\ OtherAfterCall

\* get_position(n, alpha); n = <<>> stands for n=None
GetPosition(n, alpha) ==
    /\ last' = IF alpha >= Len(atom_positions)
               THEN Call("get_position", <<n, alpha>>, "IndexError", <<>>)
               ELSE Call("get_position", <<n, alpha>>, "none",
                         IF n = <<>> THEN atom_positions[alpha + 1]
                         ELSE get_position(vectors, atom_positions, n, alpha))
    /\ UNCHANGED <<lattice, COUNTER>>
    /\ OtherAfterCall

\* translate(nvec, r)
Translate(nvec, r) ==
    /\ last' = Call("translate", <<nvec, r>>, "none", translate(vectors, nvec, r))
    /\ UNCHANGED <<lattice, COUNTER>>
    /\ OtherAfterCall

\* real-space vectors itranslate is called with: the images of translation
\* vectors N, and those images moved by an atom position
RealVectors(N) == {translate(vectors, n, r) : n \in N, r \in Positions(dim)}

\* itranslate(v)
ITranslate(v) ==
    /\ last' = Call("itranslate", <<v>>, "none", itranslate(vectors, v))
    /\ UNCHANGED <<lattice, COUNTER>>
    /\ OtherAfterCall

\* the calls that change the lattice
Mutate ==
    \/ \E pos \in Positions(dim) \cup {<<>>}, atom \in Names, neighbours \in 0..MaxShells :
          AddAtom(pos, atom, neighbours)
    \/ \E num_dist \in 1..MaxShells : CalculateDistances(num_dist)
    \/ CalculateDistancesDefault

\* the queries
Query ==
    \/ \E n \in QueryCells, alpha \in 0..(MaxAtoms - 1), dist_idx \in 0..(MaxShells - 1) :
          GetNeighbours(n, alpha, dist_idx)
    \/ \E alpha \in 0..(MaxAtoms - 1), dist_idx \in 0..(MaxShells - 1),
          include_zero \in BOOLEAN :
          GetNeighbourVectors(alpha, dist_idx, include_zero)
    \/ \E n \in {<<>>, Cell(1, -1)}, alpha \in 0..(MaxAtoms - 1) : GetPosition(n, alpha)
    \/ \E nvec \in QueryCells : Translate(nvec, origin)
    \/ \E v \in RealVectors({Cell(1, -1)}) : ITranslate(v)

\* one Lattice instance: copy() is not called
Next == Mutate \/ Query

Spec == Init /\ [][Next]_vars

\* the vector algebra alone, on a freshly constructed lattice
NextVec ==
    \/ \E nvec \in NVecs, r \in Positions(dim) : Translate(nvec, r)
    \/ \E v \in RealVectors(NVecs) : ITranslate(v)

SpecVec == Init /\ [][NextVec]_vars

\* ------------------------------------------------------------------ copy
\* "latt.atoms = self.atoms": the copy is given the lists of the original
lists_assigned == {"atoms", "atom_positions"}

\* the lists copy() leaves in both instances as one object: none, every list
\* attribute of the copy is a new list made by list.copy(). Only atoms and
\* atom_positions are ever changed in place (append); distances and
\* _base_neighbors are assigned anew by calculate_distances, and the items
\* of the lists are never written.
lists_shared_by_copy == {}

\* latt = self.copy(). The program makes one copy.
Copy ==
    /\ ~other.made
    /\ other' = IF n_base # 0
                THEN LatticeRecord(StoredVectors(Transpose(vectors)), n_base, atoms,
                                   atom_positions, 0, distances, base_neighbors)
                ELSE LatticeRecord(StoredVectors(Transpose(vectors)), 0, <<>>, <<>>, 0,
                                   <<>>, <<>>)
    /\ shared' = IF n_base # 0 THEN lists_shared_by_copy ELSE {}
    /\ last' = Call("copy", <<>>, "none", <<>>)
    /\ UNCHANGED <<lattice, COUNTER, receiver>>

\* the caller turns from the original to the copy: the calls that follow are
\* made on latt. Atom.COUNTER belongs to the class, not to an instance.
Switch ==
    /\ other.made
    /\ receiver = "self"
    /\ vectors' = other.vectors
    /\ n_base' = other.n_base
    /\ atoms' = other.atoms
    /\ atom_positions' = other.atom_positions
    /\ n_dist' = other.n_dist
    /\ distances' = other.distances
    /\ base_neighbors' = other.base_neighbors
    /\ other' = LatticeRecord(vectors, n_base, atoms, atom_positions, n_dist, distances,
                              base_neighbors)
    /\ receiver' = "latt"
    /\ UNCHANGED <<COUNTER, last, shared>>

\* the queries made while two instances exist
QueryCopy ==
    \/ GetNeighbours(Cell(1, -1), 0, 0)
    \/ GetNeighbourVectors(0, 0, FALSE)

\* the calls that change an instance while two instances exist
MutateCopy ==
    \/ \E pos \in Positions(dim) \cup {<<>>}, atom \in Names, neighbours \in {0, 1} :
          AddAtom(pos, atom, neighbours)
    \/ CalculateDistancesDefault

\* calls on the original, copy(), more calls on the original, then calls on
\* the copy
NextCopy ==
    \/ Copy
    \/ Switch
    \/ MutateCopy
    \/ QueryCopy

SpecCopy == Init /\ [][NextCopy]_vars

\* ================================================================ claims
\* the last call was a calculate_distances that ran to its end, directly or
\* from add_atom(neighbours > 0)
JustCalculated ==
    /\ last.err = "none"
    /\ \/ last.op = "calculate_distances"
       \/ last.op = "add_atom" /\ last.args[3] # 0

\* the shell count that call was made with
Requested ==
    IF last.op = "add_atom" THEN last.args[3]
    ELSE IF last.args = <<>> THEN Len(atoms) ELSE last.args[1]

\* the entries of a list
Entries(seq) == {seq[k] : k \in 1..Len(seq)}

\* the rounded distance of site (n, b) from atom a of the origin cell (a, b from 0)
SiteDistance(n, b, a) ==
    SqrtTab[Dist2(VecAdd(atom_positions[b + 1], MatVec(vectors, n)), atom_positions[a + 1])]

\* C1: a non-empty neighbour table is the table of the current basis: it is
\* what calculate_distances(n_dist) gives for the current atoms, it has one row
\* per basis atom and one entry per stored shell in each row, and
\* get_neighbours succeeds for every atom index below n_base.
C1_TableBelongsToBasis ==
    /\ base_neighbors # <<>> =>
          /\ Len(base_neighbors) = n_base
          /\ \A a \in 1..Len(base_neighbors) : Len(base_neighbors[a]) = Len(distances)
          /\ distances = calculate(vectors, atom_positions, n_dist).distances
          /\ base_neighbors = calculate(vectors, atom_positions, n_dist).neighbours
    /\ ( /\ last.op = "get_neighbours"
         /\ base_neighbors # <<>>
         /\ last.args[2] < n_base
         /\ last.args[3] < Len(distances) ) => last.err = "none"

\* C2: after calculate_distances(k), k >= 1, on a basis whose searched region
\* holds at least k distinct nonzero distances, the shell list is exactly the
\* first k of them in ascending order and every table row has k entries.
C2_ExactlyKShells ==
    JustCalculated =>
        LET k == Requested
            nonzero == {d \in unique_distances(vectors, atom_positions, n_expand(k)) : d # 0}
            ascending == SortAscending(nonzero)
        IN  (k >= 1 /\ Cardinality(nonzero) >= k) =>
                /\ Len(distances) = k
                /\ distances = SubSeq(ascending, 1, k)
                /\ \A a \in 1..Len(base_neighbors) : Len(base_neighbors[a]) = k

\* C3: after calculate_distances, the entry of atom alpha and shell i holds
\* every site of the lattice (here: every site with translation coordinates
\* within Reach) whose rounded distance from atom alpha equals shell i.
C3_NoNeighbourMissing ==
    JustCalculated =>
        \A a \in 0..(n_base - 1), i \in 1..Len(distances) :
            \A n \in [1..dim -> (-Reach)..Reach], b \in 0..(n_base - 1) :
                SiteDistance(n, b, a) = distances[i]
                    => (n \o <<b>>) \in Entries(base_neighbors[a + 1][i])

\* C4: in every state the shell list is strictly increasing and every entry
\* is strictly positive.
C4_ShellsIncreasing ==
    \A i \in 1..Len(distances) :
        /\ distances[i] > 0
        /\ i < Len(distances) => distances[i] < distances[i + 1]

C4_Witness == Len(distances) >= 2 /\ n_base = 2

\* C5: every entry stored for atom alpha and shell i is a site of the basis at
\* rounded distance distances[i] from atom alpha; it is never the site
\* (origin, alpha) itself, and no entry holds a site twice.
C5_StoredAreAtShellDistance ==
    \A a \in 1..Len(base_neighbors) :
        \A i \in 1..Len(base_neighbors[a]) :
            LET row == base_neighbors[a][i]
            IN  \A k \in 1..Len(row) :
                    /\ Len(row[k]) = dim + 1
                    /\ row[k][dim + 1] \in 0..(n_base - 1)
                    /\ SiteDistance(SubSeq(row[k], 1, dim), row[k][dim + 1], a - 1)
                           = distances[i]
                    /\ row[k] # origin \o <<a - 1>>
                    /\ \A j \in 1..Len(row) : row[j] = row[k] => j = k

C5_Witness ==
    /\ JustCalculated
    /\ n_base = 2
    /\ \A a \in 1..2 : \A i \in 1..Len(distances) : Len(base_neighbors[a][i]) >= 2

\* C6: get_neighbours((n, alpha), i) returns the entries of
\* get_neighbours((origin, alpha), i), in the same order, with n added to the
\* translation components and the atom index unchanged.
C6_TranslationSymmetry ==
    (last.op = "get_neighbours" /\ last.err = "none") =>
        LET n == last.args[1]
            atOrigin == get_neighbours(origin, last.args[2], last.args[3])
        IN  /\ Len(last.ret) = Len(atOrigin)
            /\ \A k \in 1..Len(atOrigin) :
                  /\ Len(last.ret[k]) = dim + 1
                  /\ \A d \in 1..dim : last.ret[k][d] = atOrigin[k][d] + n[d]
                  /\ last.ret[k][dim + 1] = atOrigin[k][dim + 1]

C6_Witness ==
    /\ last.op = "get_neighbours"
    /\ last.err = "none"
    /\ last.args[1] = Cell(1, -1)
    /\ last.args[2] = 1
    /\ Len(last.ret) >= 2

\* C7: add_atom at a position the basis already holds (the origin for
\* pos=None) fails with the duplicate-position error and leaves atoms,
\* positions, n_base, shell list and neighbour table as they were.
C7_DuplicateAddLeavesState ==
    [][ ( /\ last'.op = "add_atom"
          /\ \E k \in 1..Len(atom_positions) :
                atom_positions[k] = (IF last'.args[1] = <<>> THEN origin ELSE last'.args[1]) )
        => (last'.err = "ValueError" /\ UNCHANGED lattice) ]_vars

C7_Witness ==
    /\ last.op = "add_atom"
    /\ last.err = "ValueError"
    /\ last.args[1] = <<>>
    /\ last.args[3] # 0
    /\ base_neighbors # <<>>

\* C8: calculate_distances on an empty basis, and get_neighbours and
\* get_neighbour_vectors without a neighbour table, fail with the
\* configuration error and change nothing; a get_neighbours that follows a
\* successful calculate_distances, for an atom and a shell that exist, succeeds.
C8_PrerequisiteErrors ==
    [][ /\ (last'.op = "calculate_distances" /\ Len(atoms) = 0)
              => (last'.err = "ConfigurationError" /\ UNCHANGED lattice)
        /\ (last'.op \in {"get_neighbours", "get_neighbour_vectors"} /\ base_neighbors = <<>>)
              => (last'.err = "ConfigurationError" /\ UNCHANGED lattice)
        /\ ( /\ last'.op = "get_neighbours"
             /\ JustCalculated
             /\ last'.args[2] < n_base
             /\ last'.args[3] < Len(distances) )
              => last'.err = "none" ]_vars

C8_Witness ==
    /\ last.op = "get_neighbours"
    /\ last.err = "ConfigurationError"
    /\ n_base > 0

C10_SquareLattice ==
    ( /\ vectors = StoredVectors(square(1))
      /\ atom_positions = << <<0, 0>> >>
      /\ JustCalculated
      /\ Len(distances) = 2 )
    => /\ distances = <<100000, 141421>>
       /\ Len(base_neighbors[1][1]) = 4
       /\ Entries(base_neighbors[1][1])
              = {<<1, 0, 0>>, <<-1, 0, 0>>, <<0, 1, 0>>, <<0, -1, 0>>}
       /\ Len(base_neighbors[1][2]) = 4
       /\ Entries(base_neighbors[1][2])
              = {<<1, 1, 0>>, <<1, -1, 0>>, <<-1, 1, 0>>, <<-1, -1, 0>>}

C10_Witness ==
    /\ vectors = StoredVectors(square(1))
    /\ atom_positions = << <<0, 0>> >>
    /\ last.op = "calculate_distances"
    /\ last.err = "none"
    /\ last.args = <<2>>
    /\ Len(base_neighbors[1][2]) = 4

\* lst1 holds the entries of lst0 at their indices, ahead of anything new
StartsWith(lst1, lst0) ==
    /\ Len(lst0) <= Len(lst1)
    /\ \A k \in 1..Len(lst0) : lst1[k] = lst0[k]

\* n_base == len(atoms) == len(atom_positions)
SizesAgree(nb, A, P) == nb = Len(A) /\ Len(A) = Len(P)

\* the records of the basis size agree in both instances
BasisSizesAgree ==
    /\ SizesAgree(n_base, atoms, atom_positions)
    /\ SizesAgree(other.n_base, other.atoms, other.atom_positions)

\* a step of calls on one instance that keeps the entries of both bases where
\* they are; Atom.COUNTER moves exactly when add_atom has added an atom
BasisStep ==
    receiver' = receiver =>
        /\ StartsWith(atoms', atoms)
        /\ StartsWith(atom_positions', atom_positions)
        /\ StartsWith(other'.atoms, other.atoms)
        /\ StartsWith(other'.atom_positions, other.atom_positions)
        /\ IF COUNTER' # COUNTER
           THEN /\ last'.op = "add_atom"
                /\ last'.err = "none"
                /\ Len(atoms') = Len(atoms) + 1
                /\ Len(atom_positions') = Len(atoms) + 1
                /\ atoms'[Len(atoms) + 1] = last'.ret
                /\ atom_positions'[Len(atoms) + 1]
                      = IF last'.args[1] = <<>> THEN origin ELSE last'.args[1]
           ELSE /\ atoms' = atoms
                /\ atom_positions' = atom_positions

\* C11: the basis is append-only. Across add_atom, failed add_atom,
\* calculate_distances, get_neighbours, get_neighbour_vectors and copy, a
\* successful add_atom puts the new tag and position at the index equal to
\* the previous atom count, no other call changes the basis, entries at
\* earlier indices are never changed, removed or reordered, and
\* n_base == len(atoms) == len(atom_positions) in every reachable state, in
\* the original and in the copy.
C11_BasisAppendOnly == []BasisSizesAgree /\ [][BasisStep]_vars

\* the copy of a one-atom basis has been given a second atom
C11_Witness ==
    /\ receiver = "latt"
    /\ last.op = "add_atom"
    /\ last.err = "none"
    /\ Len(atoms) = 2
    /\ atoms[2] = last.ret
    /\ other.n_base = 1

\* the copy holds the atoms, positions, shell list and neighbour table of
\* the original
CopyEqualsOriginal ==
    /\ other.atoms = atoms
    /\ other.atom_positions = atom_positions
    /\ other.distances = distances
    /\ other.base_neighbors = base_neighbors

\* a step of copy() on a non-empty basis, or of a call on one of the two
\* instances
CopyStep ==
    /\ (~other.made /\ other'.made /\ n_base # 0) => CopyEqualsOriginal'
    /\ (other.made /\ receiver' = receiver) => other' = other

\* C12: copy() of a lattice with a non-empty basis returns a lattice whose
\* atoms, positions, shell list and neighbour table equal the original's at
\* the time of the copy, and no later call (add_atom, calculate_distances,
\* a query) on the copy changes the original, nor one on the original the copy.
C12_CopyIsIndependent == [][CopyStep]_vars

\* the copy of a basis with a neighbour table has been given one more atom
\* than the original has
C12_Witness ==
    /\ receiver = "latt"
    /\ last.op = "add_atom"
    /\ last.err = "none"
    /\ other.base_neighbors # <<>>
    /\ Len(atoms) = other.n_base + 1
    /\ atoms[1] = other.atoms[1]
    /\ base_neighbors # other.base_neighbors

\* -v
Negated(v) == [i \in 1..Len(v) |-> -v[i]]

\* C13: calculate_distances enumerates every translation vector whose
\* coordinates lie in the closed range [-n_expand, n_expand], with
\* n_expand = max(num_shells + 1, 3): both end points are candidates and
\* the candidate set is closed under negation.
C13_ClosedSymmetricRange ==
    JustCalculated =>
        LET n == n_expand(Requested)
            cells == Entries(image_vectors(dim, n))
        IN  /\ cells = [1..dim -> (-n)..n]
            /\ \A v \in cells : Negated(v) \in cells

\* the candidate indices with every translation coordinate within w of the
\* origin cell, for every atom of the basis
Window(w) == {<<n, b>> : n \in [1..dim -> (-w)..w], b \in 0..(n_base - 1)}

\* a site on the border of the window of width w
OnBorder(n, w) == \E d \in 1..dim : n[d] = w \/ n[d] = -w

\* C14: for a site in the origin cell and shell index i, calculate_neighbours
\* examines exactly the candidates whose translation coordinates lie within
\* i + 3 of the site's cell in every dimension, for every atom index; a site
\* at the distance of shell i with a coordinate exactly i + 3 away is
\* accepted into the table.
C14_CandidateWindow ==
    JustCalculated =>
        \A a \in 0..(n_base - 1), i \in 0..(Len(distances) - 1) :
            /\ Entries(neighbour_range(n_base, origin, i)) = Window(i + 3)
            /\ \A idx1 \in Window(i + 3) :
                  (OnBorder(idx1[1], i + 3)
                      /\ SiteDistance(idx1[1], idx1[2], a) = distances[i + 1])
                  => (idx1[1] \o <<idx1[2]>>) \in Entries(base_neighbors[a + 1][i + 1])

\* the read-only calls
QueryOps == {"get_neighbours", "get_neighbour_vectors", "get_position", "translate",
             "itranslate"}

\* what the last query returns when it is made once more, now
RepeatedQuery ==
    LET q == last.args
    IN  CASE last.op = "get_neighbours" -> get_neighbours(q[1], q[2], q[3])
          [] last.op = "get_neighbour_vectors" -> get_neighbour_vectors(q[1], q[2], q[3])
          [] last.op = "get_position" ->
                IF q[1] = <<>> THEN atom_positions[q[2] + 1]
                ELSE get_position(vectors, atom_positions, q[1], q[2])
          [] last.op = "translate" -> translate(vectors, q[1], q[2])
          [] last.op = "itranslate" -> itranslate(vectors, q[1])

\* a query that succeeded gives, repeated, the result it gave
RepeatGivesSame ==
    (last.op \in QueryOps /\ last.err = "none") => last.ret = RepeatedQuery

\* a query leaves every attribute of the lattice as it was
QueryStep == last'.op \in QueryOps => UNCHANGED <<lattice, COUNTER>>

\* C15: get_neighbours, get_neighbour_vectors, get_position, translate and
\* itranslate leave the lattice state unchanged, get_neighbours with a
\* nonzero translation does not alter the stored neighbour table, and a
\* query repeated between mutations returns the result it returned before.
C15_QueriesReadOnly == []RepeatGivesSame /\ [][QueryStep]_vars

\* get_neighbours has returned the neighbours of a site of the cell (-1, 0)
C15_Witness ==
    /\ last.op = "get_neighbours"
    /\ last.err = "none"
    /\ last.args[1] = Cell(-1, 0)
    /\ Len(last.ret) >= 2
    /\ last.ret # base_neighbors[last.args[2] + 1][last.args[3] + 1]
====
